---- MODULE Spec2Model ----
(***************************************************************************)
(* A model of src/App.js: the App component of a map-and-weather screen.  *)
(*                                                                         *)
(* The state is the component's hook state (latitude, longitude,          *)
(* weatherData, visible, locationError), the locationSubscription ref,    *)
(* the configured API_KEY, the asynchronous calls that are suspended at   *)
(* an await (startLocationTracking and fetchWeatherData invocations), the *)
(* subscription handles the location service has handed out, and the      *)
(* calls made on the collaborators (fetch, Alert.alert, console.error).   *)
(*                                                                         *)
(* Numbers are fixed-point integers: coordinates in 10^-6 degrees, the    *)
(* temperature in 10^-3 degrees Celsius.  A nullable JavaScript value is  *)
(* a sequence of length at most one: <<>> is null/undefined, <<v>> is v.  *)
(***************************************************************************)
EXTENDS Integers, Sequences, FiniteSets, TLC

VARIABLES
    latitude,              \* useState(57.538900)
    longitude,             \* useState(25.425727)
    weatherData,           \* useState(null)
    visible,               \* useState(false)
    locationError,         \* useState(null)
    locationSubscription,  \* useRef(null).current
    apiKey,                \* const API_KEY
    mounted,               \* the component is mounted
    effectRan,             \* the useEffect body has run at least once
    starts,                \* the startLocationTracking invocations suspended at an await, in call order
    startCalls,            \* number of startLocationTracking calls
    permRequests,          \* number of requestForegroundPermissionsAsync calls
    watchCalls,            \* number of watchPositionAsync calls
    subs,                  \* per subscription handle, in creation order: its remove() calls
    fetches,               \* the fetchWeatherData invocations suspended at an await, in call order
    fetchCalls,            \* number of fetchWeatherData calls
    requests,              \* number of fetch(apiURL) calls
    alerts,                \* number of Alert.alert calls
    errorLog               \* number of console.error calls

vars == <<latitude, longitude, weatherData, visible, locationError,
          locationSubscription, apiKey, mounted, effectRan, starts, startCalls,
          permRequests, watchCalls, subs,
          fetches, fetchCalls, requests, alerts, errorLog>>

uiVars == <<latitude, longitude, weatherData, visible>>
trackVars == <<locationError, locationSubscription, starts, startCalls, permRequests,
               watchCalls, subs>>
fetchVars == <<fetches, fetchCalls, requests, errorLog>>

-----------------------------------------------------------------------------
(* Bounds of the model *)

MaxCalls == 4       \* startLocationTracking and fetchWeatherData calls in one session

-----------------------------------------------------------------------------
(* Nullable values *)

Null == <<>>
Some(v) == <<v>>
IsNull(o) == o = <<>>
Val(o) == o[1]

-----------------------------------------------------------------------------
(* Program constants *)

InitialLatitude == 57538900     \* 57.538900
InitialLongitude == 25425727    \* 25.425727

PlaceholderKey == "YOUR_ACTUAL_API_KEY_HERE"
ShippedKey == "Your API key"
UnknownLocation == "Unknown Location"
PermissionDeniedMessage == "Permission to access location was denied"
TrackingErrorPrefix == "Error tracking location: "

(* The values of API_KEY: the text of line 28, and the two values the     *)
(* guard of line 39 tests for (no key, the placeholder it names).  A real *)
(* key takes the same path through the code as the text of line 28.       *)
APIKeys == {"", PlaceholderKey, ShippedKey}

(* Positions the location service reports: the initial one, and one whose *)
(* latitude rounds up at 4 decimals and whose longitude is negative and   *)
(* has fewer than 4 decimals (40.712776, -74.006).                        *)
Positions ==
    { [lat |-> InitialLatitude, lon |-> InitialLongitude],
      [lat |-> 40712776, lon |-> -74006000] }

PermissionStatuses == {"granted", "denied", "undetermined"}

ErrorMessages == {"Location services are disabled"}

-----------------------------------------------------------------------------
(* Number.prototype.toFixed on a fixed-point number v / 10^scale.  The    *)
(* inputs of the model are not ties, so which way a tie rounds is not     *)
(* modelled.                                                              *)

RECURSIVE Pow10(_)
Pow10(n) == IF n = 0 THEN 1 ELSE 10 * Pow10(n - 1)

RECURSIVE ZeroPad(_, _)
ZeroPad(s, width) == IF Len(s) >= width THEN s ELSE ZeroPad("0" \o s, width)

(* A variant of ToFixed that cuts the extra digits off instead of rounding. *)
ToFixedTruncating(v, scale, digits) ==
    LET m == IF v < 0 THEN -v ELSE v
        n == m \div Pow10(scale - digits)
    IN  (IF v < 0 THEN "-" ELSE "")
          \o ToString(n \div Pow10(digits)) \o "."
          \o ZeroPad(ToString(n % Pow10(digits)), digits)

ToFixed(v, scale, digits) ==
    LET m == IF v < 0 THEN -v ELSE v
        unit == Pow10(scale - digits)
        n == (m + unit \div 2) \div unit
        whole == n \div Pow10(digits)
        frac == n % Pow10(digits)
    IN  (IF v < 0 THEN "-" ELSE "")
          \o ToString(whole) \o "." \o ZeroPad(ToString(frac), digits)

-----------------------------------------------------------------------------
(* The weather API's answers *)

WellFormed ==
    [ name |-> Some("Valka"),
      main |-> Some([temp |-> Some(18456), pressure |-> Some(1012),
                     humidity |-> Some(60)]),
      weather |-> Some(<< [description |-> Some("clear sky")] >>) ]

MainOf(d) == Val(d.main)

(* The JSON bodies of a 2xx answer: null, the well-formed body, and the   *)
(* well-formed body with one part missing or empty.                       *)
JsonBodies ==
    { Null,
      Some(WellFormed),
      Some([WellFormed EXCEPT !.name = Null]),
      Some([WellFormed EXCEPT !.name = Some("")]),
      Some([WellFormed EXCEPT !.main = Null]),
      Some([WellFormed EXCEPT !.main = Some([MainOf(WellFormed) EXCEPT !.temp = Null])]),
      Some([WellFormed EXCEPT !.main = Some([MainOf(WellFormed) EXCEPT !.pressure = Null])]),
      Some([WellFormed EXCEPT !.weather = Null]),
      Some([WellFormed EXCEPT !.weather = Some(<< >>)]),
      Some([WellFormed EXCEPT !.weather = Some(<< [description |-> Null] >>)]) }

(* Lines 59-65 throw a TypeError when they read a property of undefined:  *)
(* data.main.temp, data.main.temp.toFixed, data.weather[0],               *)
(* data.weather[0].description.                                           *)
BuildThrows(d) ==
    \/ IsNull(d.main)
    \/ IsNull(MainOf(d).temp)
    \/ IsNull(d.weather)
    \/ Len(Val(d.weather)) = 0

(* data.name || 'Unknown Location' *)
PlaceOf(d) ==
    IF IsNull(d.name) \/ Val(d.name) = "" THEN UnknownLocation ELSE Val(d.name)

(* The object literal of lines 58-66. *)
WeatherRecord(lat, lon, d) ==
    [ place |-> PlaceOf(d),
      latitude |-> ToFixed(lat, 6, 4),
      longitude |-> ToFixed(lon, 6, 4),
      temp |-> ToFixed(Val(MainOf(d).temp), 3, 2),
      pressure |-> MainOf(d).pressure,
      humidity |-> MainOf(d).humidity,
      description |-> Val(d.weather)[1].description ]

-----------------------------------------------------------------------------
(* Initial state: the first render *)

Init ==
    /\ latitude = InitialLatitude
    /\ longitude = InitialLongitude
    /\ weatherData = Null
    /\ visible = FALSE
    /\ locationError = Null
    /\ locationSubscription = Null
    /\ apiKey \in APIKeys
    /\ mounted = TRUE
    /\ effectRan = FALSE
    /\ starts = << >>
    /\ startCalls = 0
    /\ permRequests = 0
    /\ watchCalls = 0
    /\ subs = << >>
    /\ fetches = << >>
    /\ fetchCalls = 0
    /\ requests = 0
    /\ alerts = 0
    /\ errorLog = 0

-----------------------------------------------------------------------------
(* The location service's subscription handles *)

Handles == DOMAIN subs

(* A subscription delivers updates from its creation to its first remove(). *)
Active(h) == h \in Handles /\ subs[h] = 0
ActiveSubs == {h \in Handles : Active(h)}

(* handle.remove() *)
Remove(h) == [subs EXCEPT ![h] = @ + 1]

(* if (locationSubscription.current) locationSubscription.current.remove() *)
RemoveCurrent ==
    IF IsNull(locationSubscription) THEN subs ELSE Remove(Val(locationSubscription))

-----------------------------------------------------------------------------
(* startLocationTracking *)

(* The invocations still suspended, without invocation i, which returned. *)
StartReturned(i) ==
    [k \in 1..(Len(starts) - 1) |-> IF k < i THEN starts[k] ELSE starts[k + 1]]

(* The call: runs to the first await, the permission request. *)
StartLocationTracking ==
    /\ startCalls' = startCalls + 1
    /\ permRequests' = permRequests + 1
    /\ starts' = Append(starts, "awaitPerm")
    /\ UNCHANGED watchCalls

(* A variant of PermissionDenied without the return of line 84: the error *)
(* is set and the invocation goes on to watchPositionAsync.               *)
PermissionDeniedNoReturn(i) ==
    /\ locationError' = Some(PermissionDeniedMessage)
    /\ subs' = RemoveCurrent
    /\ watchCalls' = watchCalls + 1
    /\ starts' = [starts EXCEPT ![i] = "awaitWatch"]
    /\ UNCHANGED <<locationSubscription, alerts, startCalls, permRequests>>

(* status !== 'granted': lines 82-85. *)
PermissionDenied(i) ==
    /\ locationError' = Some(PermissionDeniedMessage)
    /\ starts' = StartReturned(i)
    /\ UNCHANGED <<locationSubscription, subs, alerts, startCalls, permRequests, watchCalls>>

(* status === 'granted': lines 87-93, up to the await of watchPositionAsync. *)
PermissionGranted(i) ==
    /\ subs' = RemoveCurrent
    /\ watchCalls' = watchCalls + 1
    /\ starts' = [starts EXCEPT ![i] = "awaitWatch"]
    /\ UNCHANGED <<locationError, locationSubscription, alerts, startCalls, permRequests>>

(* A variant of TrackingFailed that shows the banner but raises no alert. *)
TrackingFailedSilent(i, msg) ==
    /\ locationError' = Some(TrackingErrorPrefix \o msg)
    /\ starts' = StartReturned(i)
    /\ UNCHANGED <<locationSubscription, subs, alerts, startCalls, permRequests, watchCalls>>

(* The catch block, lines 110-113. *)
TrackingFailed(i, msg) ==
    /\ locationError' = Some(TrackingErrorPrefix \o msg)
    /\ alerts' = alerts + 1
    /\ starts' = StartReturned(i)
    /\ UNCHANGED <<locationSubscription, subs, startCalls, permRequests, watchCalls>>

(* The permission request resolves. *)
PermissionResolve(i, status) ==
    /\ starts[i] = "awaitPerm"
    /\ IF status # "granted" THEN PermissionDenied(i) ELSE PermissionGranted(i)
    /\ UNCHANGED <<uiVars, fetchVars, apiKey, mounted, effectRan>>

(* The permission request rejects. *)
PermissionReject(i, msg) ==
    /\ starts[i] = "awaitPerm"
    /\ TrackingFailed(i, msg)
    /\ UNCHANGED <<uiVars, fetchVars, apiKey, mounted, effectRan>>

(* A variant of WatchResolve that clears the error banner when tracking  *)
(* starts.                                                                *)
WatchResolveClearing(i) ==
    /\ starts[i] = "awaitWatch"
    /\ subs' = Append(subs, 0)
    /\ locationSubscription' = Some(Len(subs) + 1)
    /\ locationError' = Null
    /\ starts' = StartReturned(i)
    /\ UNCHANGED <<uiVars, fetchVars, alerts, startCalls, permRequests,
                   watchCalls, apiKey, mounted, effectRan>>

(* watchPositionAsync resolves with a new handle, which line 93 stores. *)
WatchResolve(i) ==
    /\ starts[i] = "awaitWatch"
    /\ subs' = Append(subs, 0)
    /\ locationSubscription' = Some(Len(subs) + 1)
    /\ starts' = StartReturned(i)
    /\ UNCHANGED <<uiVars, fetchVars, locationError, alerts, startCalls, permRequests,
                   watchCalls, apiKey, mounted, effectRan>>

(* watchPositionAsync rejects. *)
WatchReject(i, msg) ==
    /\ starts[i] = "awaitWatch"
    /\ TrackingFailed(i, msg)
    /\ UNCHANGED <<uiVars, fetchVars, apiKey, mounted, effectRan>>

-----------------------------------------------------------------------------
(* useEffect(..., [startLocationTracking]) *)

(* The effect runs after the first render. *)
RunEffect ==
    /\ mounted /\ ~effectRan
    /\ startCalls + fetchCalls < MaxCalls
    /\ effectRan' = TRUE
    /\ StartLocationTracking
    /\ UNCHANGED <<uiVars, fetchVars, locationError, locationSubscription, subs,
                   alerts, apiKey, mounted>>

(* React runs the effect again on the mounted component (a changed       *)
(* dependency, Strict Mode's second run, Fast Refresh): the cleanup of   *)
(* the previous run, then the body.  Hook state and the ref are kept.    *)
ReRunEffect ==
    /\ mounted /\ effectRan
    /\ startCalls + fetchCalls < MaxCalls
    /\ subs' = RemoveCurrent
    /\ StartLocationTracking
    /\ UNCHANGED <<uiVars, fetchVars, locationError, locationSubscription,
                   alerts, apiKey, mounted, effectRan>>

(* The component unmounts: the cleanup of the last run. *)
Unmount ==
    /\ mounted
    /\ mounted' = FALSE
    /\ subs' = IF effectRan THEN RemoveCurrent ELSE subs
    /\ UNCHANGED <<uiVars, fetchVars, locationError, locationSubscription, starts,
                   startCalls, permRequests, watchCalls, alerts, apiKey, effectRan>>

-----------------------------------------------------------------------------
(* fetchWeatherData *)
(*                                                                         *)
(* React discards the hook state of an unmounted component, so the model  *)
(* follows fetches and location updates while the component is mounted.   *)
(* The steps of startLocationTracking go on after the unmount: they       *)
(* decide which subscriptions stay active.                                *)

(* The guard of line 39. *)
KeyRejected(key) == key = "" \/ key = PlaceholderKey

(* The invocations still suspended, without invocation f, which returned. *)
Returned(f) == [k \in 1..(Len(fetches) - 1) |-> IF k < f THEN fetches[k] ELSE fetches[k + 1]]

(* The call fetchWeatherData(lat, lon): runs to the return of line 41 or *)
(* to the await of fetch(apiURL), line 45.                               *)
FetchWeatherData(caller, lat, lon) ==
    /\ fetchCalls' = fetchCalls + 1
    /\ IF KeyRejected(apiKey)
       THEN /\ alerts' = alerts + 1
            /\ UNCHANGED <<fetches, requests, errorLog>>
       ELSE /\ requests' = requests + 1
            /\ fetches' = Append(fetches, [caller |-> caller, lat |-> lat, lon |-> lon,
                                           pc |-> "awaitFetch"])
            /\ UNCHANGED <<alerts, errorLog>>

(* A variant of FetchFailed that drops the stored record. *)
FetchFailedClearing(f) ==
    /\ errorLog' = errorLog + 1
    /\ weatherData' = Null
    /\ fetches' = Returned(f)
    /\ UNCHANGED <<latitude, longitude, visible, fetchCalls, requests, alerts>>

(* A variant of FetchFailed that also shows the error to the user. *)
FetchFailedAlerting(f) ==
    /\ errorLog' = errorLog + 1
    /\ alerts' = alerts + 1
    /\ fetches' = Returned(f)
    /\ UNCHANGED <<uiVars, fetchCalls, requests>>

(* The catch block, lines 71-74. *)
FetchFailed(f) ==
    /\ errorLog' = errorLog + 1
    /\ fetches' = Returned(f)
    /\ UNCHANGED <<uiVars, fetchCalls, requests, alerts>>

(* A variant of StoreWeather that closes the dialog when a record arrives. *)
StoreWeatherClosing(f, data) ==
    IF IsNull(data) \/ BuildThrows(Val(data))
    THEN FetchFailed(f)
    ELSE /\ weatherData' = Some(WeatherRecord(fetches[f].lat, fetches[f].lon, Val(data)))
         /\ visible' = FALSE
         /\ fetches' = Returned(f)
         /\ UNCHANGED <<latitude, longitude, fetchCalls, requests, alerts, errorLog>>

(* A variant of StoreWeather that discards a stale result: the record is  *)
(* stored only if no fetch called later is still suspended.               *)
StoreWeatherIfLatest(f, data) ==
    IF IsNull(data) \/ BuildThrows(Val(data))
    THEN FetchFailed(f)
    ELSE /\ weatherData' = IF f = Len(fetches)
                           THEN Some(WeatherRecord(fetches[f].lat, fetches[f].lon, Val(data)))
                           ELSE weatherData
         /\ fetches' = Returned(f)
         /\ UNCHANGED <<latitude, longitude, visible, fetchCalls, requests, alerts, errorLog>>

(* Lines 57-69 on the parsed body. *)
StoreWeather(f, data) ==
    IF IsNull(data) \/ BuildThrows(Val(data))
    THEN FetchFailed(f)
    ELSE /\ weatherData' = Some(WeatherRecord(fetches[f].lat, fetches[f].lon, Val(data)))
         /\ fetches' = Returned(f)
         /\ UNCHANGED <<latitude, longitude, visible, fetchCalls, requests, alerts, errorLog>>

(* fetch(apiURL) resolves with a response whose ok flag is `ok`. *)
FetchResponse(f, ok) ==
    /\ mounted
    /\ fetches[f].pc = "awaitFetch"
    /\ fetches' = [fetches EXCEPT ![f].pc = IF ok THEN "awaitJson" ELSE "awaitText"]
    /\ UNCHANGED <<uiVars, trackVars, fetchCalls, requests, alerts, errorLog, apiKey,
                   mounted, effectRan>>

(* fetch(apiURL) rejects (no network). *)
FetchReject(f) ==
    /\ mounted
    /\ fetches[f].pc = "awaitFetch"
    /\ FetchFailed(f)
    /\ UNCHANGED <<trackVars, apiKey, mounted, effectRan>>

(* response.text() settles: line 50 throws (or text() itself rejected). *)
TextSettle(f) ==
    /\ mounted
    /\ fetches[f].pc = "awaitText"
    /\ FetchFailed(f)
    /\ UNCHANGED <<trackVars, apiKey, mounted, effectRan>>

(* response.json() resolves with the parsed body. *)
JsonResolve(f, data) ==
    /\ mounted
    /\ fetches[f].pc = "awaitJson"
    /\ StoreWeather(f, data)
    /\ UNCHANGED <<trackVars, apiKey, mounted, effectRan>>

(* response.json() rejects (the body is not JSON). *)
JsonReject(f) ==
    /\ mounted
    /\ fetches[f].pc = "awaitJson"
    /\ FetchFailed(f)
    /\ UNCHANGED <<trackVars, apiKey, mounted, effectRan>>

-----------------------------------------------------------------------------
(* The callers of fetchWeatherData and the dialog *)

(* A variant of LocationUpdate that fetches for the coordinates of the   *)
(* last render (the state) instead of the reported ones.                 *)
LocationUpdateStale(h, pos) ==
    /\ mounted
    /\ Active(h)
    /\ startCalls + fetchCalls < MaxCalls
    /\ latitude' = pos.lat
    /\ longitude' = pos.lon
    /\ FetchWeatherData("auto", latitude, longitude)
    /\ UNCHANGED <<weatherData, visible, trackVars, apiKey, mounted, effectRan>>

(* The callback of watchPositionAsync, lines 99-108, called by an active *)
(* subscription.                                                         *)
LocationUpdate(h, pos) ==
    /\ mounted
    /\ Active(h)
    /\ startCalls + fetchCalls < MaxCalls
    /\ latitude' = pos.lat
    /\ longitude' = pos.lon
    /\ FetchWeatherData("auto", pos.lat, pos.lon)
    /\ UNCHANGED <<weatherData, visible, trackVars, apiKey, mounted, effectRan>>

(* showDialog *)
ShowDialog == visible' = TRUE

(* A variant of GetWeather whose button is disabled while the location   *)
(* error banner is shown.                                                *)
GetWeatherUnlessError ==
    /\ mounted
    /\ IsNull(locationError)
    /\ startCalls + fetchCalls < MaxCalls
    /\ FetchWeatherData("manual", latitude, longitude)
    /\ ShowDialog
    /\ UNCHANGED <<latitude, longitude, weatherData, trackVars, apiKey, mounted, effectRan>>

(* The Show Weather button: getWeather. *)
GetWeather ==
    /\ mounted
    /\ startCalls + fetchCalls < MaxCalls
    /\ FetchWeatherData("manual", latitude, longitude)
    /\ ShowDialog
    /\ UNCHANGED <<latitude, longitude, weatherData, trackVars, apiKey, mounted, effectRan>>

(* The Close button and the dialog's onDismiss: hideDialog. *)
HideDialog ==
    /\ mounted
    /\ visible
    /\ visible' = FALSE
    /\ UNCHANGED <<latitude, longitude, weatherData, trackVars, fetchVars, alerts,
                   apiKey, mounted, effectRan>>

-----------------------------------------------------------------------------

Next ==
    \/ RunEffect
    \/ ReRunEffect
    \/ Unmount
    \/ \E i \in DOMAIN starts, status \in PermissionStatuses : PermissionResolve(i, status)
    \/ \E i \in DOMAIN starts, msg \in ErrorMessages : PermissionReject(i, msg)
    \/ \E i \in DOMAIN starts : WatchResolve(i)
    \/ \E i \in DOMAIN starts, msg \in ErrorMessages : WatchReject(i, msg)
    \/ \E h \in Handles, pos \in Positions : LocationUpdate(h, pos)
    \/ GetWeather
    \/ HideDialog
    \/ \E f \in DOMAIN fetches, ok \in BOOLEAN : FetchResponse(f, ok)
    \/ \E f \in DOMAIN fetches : FetchReject(f)
    \/ \E f \in DOMAIN fetches : TextSettle(f)
    \/ \E f \in DOMAIN fetches, data \in JsonBodies : JsonResolve(f, data)
    \/ \E f \in DOMAIN fetches : JsonReject(f)

Spec == Init /\ [][Next]_vars

-----------------------------------------------------------------------------
(* Steps of the model named by what the code did in them *)

(* A permission request resolved with a status other than 'granted'. *)
DenialStep ==
    \E i \in DOMAIN starts, status \in PermissionStatuses \ {"granted"} :
        PermissionResolve(i, status)

(* A fetch received a response with a non-success status. *)
HttpErrorReceived == \E f \in DOMAIN fetches : FetchResponse(f, FALSE)

(* The fetch that received a non-success status ended. *)
HttpErrorEnded == \E f \in DOMAIN fetches : TextSettle(f)

(* A suspended fetch returned without logging an error: it succeeded. *)
FetchSucceeded == Len(fetches') < Len(fetches) /\ errorLog' = errorLog

(* fetchWeatherData was called. *)
FetchCalled == fetchCalls' = fetchCalls + 1

-----------------------------------------------------------------------------
(* Subscriptions *)

(* C1: at most one location subscription is active in every reachable     *)
(* state, for any number of startLocationTracking invocations and any     *)
(* interleaving of their awaits.                                          *)
C1_AtMostOneActiveSubscription == Cardinality(ActiveSubs) <= 1

(* C2: once the component is unmounted and every startLocationTracking    *)
(* invocation has returned, no location subscription is active.           *)
C2_NoSubscriptionAfterTeardown ==
    (~mounted /\ starts = << >>) => ActiveSubs = {}

(* C3: when the component is unmounted while a location subscription is   *)
(* active, the unmount cleanup calls that subscription's remove() exactly *)
(* once.                                                                  *)
C3_UnmountReleasesActiveOnce ==
    [][(mounted /\ ~mounted') => \A h \in ActiveSubs : subs'[h] = subs[h] + 1]_vars

-----------------------------------------------------------------------------
(* The API key guard *)

(* The keys the claim speaks of: no key, or a placeholder text. *)
MissingOrPlaceholder(key) == key \in {"", PlaceholderKey, ShippedKey}

(* C4: a call of fetchWeatherData with an absent, empty or placeholder    *)
(* API key issues no network request, raises exactly one alert and leaves *)
(* the weather record unchanged.                                          *)
C4_NoRequestWithoutKey ==
    [][(FetchCalled /\ MissingOrPlaceholder(apiKey))
          => /\ requests' = requests
             /\ alerts' = alerts + 1
             /\ weatherData' = weatherData]_vars

-----------------------------------------------------------------------------
(* The weather record *)

(* All seven display fields of a record hold a value. *)
Populated(r) ==
    /\ r.place # "" /\ r.latitude # "" /\ r.longitude # "" /\ r.temp # ""
    /\ ~IsNull(r.pressure) /\ ~IsNull(r.humidity) /\ ~IsNull(r.description)

(* C5: in every reachable state the weather record is null or has all     *)
(* seven display fields populated.                                        *)
C5_RecordNullOrComplete == IsNull(weatherData) \/ Populated(Val(weatherData))

(* C6: a fetch that receives a non-success HTTP status leaves the weather *)
(* record as it was, raises no alert, issues no second request, and logs  *)
(* the error when it ends.                                                *)
C6_HttpErrorLeavesRecord ==
    [][/\ (HttpErrorReceived \/ HttpErrorEnded)
            => /\ weatherData' = weatherData
               /\ alerts' = alerts
               /\ requests' = requests
               /\ fetchCalls' = fetchCalls
               /\ Len(fetches') <= Len(fetches)
       /\ HttpErrorReceived => errorLog' = errorLog
       /\ HttpErrorEnded => errorLog' = errorLog + 1 /\ Len(fetches') = Len(fetches) - 1]_vars

(* A fetch has received a non-success status while a record is stored. *)
C6_Witness ==
    /\ ~IsNull(weatherData)
    /\ \E f \in DOMAIN fetches : fetches[f].pc = "awaitText"

(* A 2xx body that lacks the main temperature or the description of the  *)
(* first weather entry.                                                  *)
LacksRequired(data) ==
    /\ ~IsNull(data)
    /\ \/ BuildThrows(Val(data))
       \/ IsNull(Val(Val(data).weather)[1].description)

(* C7: a 2xx body that lacks a required field (main temperature, weather *)
(* description) produces no record: the weather record is unchanged and  *)
(* the condition is logged.                                              *)
C7_MalformedBodyProducesNoRecord ==
    [][\A f \in DOMAIN fetches, data \in JsonBodies :
          (JsonResolve(f, data) /\ LacksRequired(data))
              => weatherData' = weatherData /\ errorLog' = errorLog + 1]_vars

-----------------------------------------------------------------------------
(* Permission denial *)

(* C8: on a denied permission, startLocationTracking sets locationError   *)
(* to the fixed message, never calls watchPositionAsync (so creates no    *)
(* subscription), does not ask for the permission again, and returns.     *)
C8_DenialStartsNothing ==
    [][DenialStep
          => /\ locationError' = Some(PermissionDeniedMessage)
             /\ watchCalls' = watchCalls
             /\ subs' = subs
             /\ locationSubscription' = locationSubscription
             /\ permRequests' = permRequests
             /\ startCalls' = startCalls
             /\ Len(starts') = Len(starts) - 1
             /\ \A k \in DOMAIN starts' : starts'[k] \in {starts[k], starts[k + 1]}]_vars

(* A denial has been handled: the error is set and no invocation is left *)
(* suspended, with no watchPositionAsync call made.                      *)
C8_Witness ==
    /\ locationError = Some(PermissionDeniedMessage)
    /\ starts = << >>
    /\ permRequests = 1
    /\ watchCalls = 0

-----------------------------------------------------------------------------
(* The dialog *)

(* C9: the dialog starts closed, is opened only by the Show Weather      *)
(* action and closed only by a dismissal; fetch completions, the API-key *)
(* alert, location updates and location errors leave it as it is.        *)
C9_DialogOnlyByUser ==
    /\ visible = FALSE
    /\ [][(visible' # visible) => IF visible' THEN GetWeather ELSE HideDialog]_vars

(* The dialog is open after a record arrived and after a fetch failed. *)
C9_Witness == visible /\ ~IsNull(weatherData) /\ errorLog > 0 /\ fetches = << >>

-----------------------------------------------------------------------------
(* The race of a manual and an automatic fetch *)

(* C10: a fetch that succeeds stores its own record whichever fetch was  *)
(* issued first and whichever fetches are still in flight: of a manual   *)
(* and an automatic fetch in flight together, the one whose response     *)
(* completes last determines the weather record.                         *)
C10_LastCompletionWins ==
    [][FetchSucceeded
          => \E f \in DOMAIN fetches :
                /\ fetches[f].pc = "awaitJson"
                /\ fetches' = Returned(f)
                /\ \E data \in JsonBodies :
                      /\ ~IsNull(data) /\ ~BuildThrows(Val(data))
                      /\ weatherData' = Some(WeatherRecord(fetches[f].lat, fetches[f].lon,
                                                           Val(data)))]_vars

(* One manual and one automatic fetch were made, both succeeded, and the *)
(* record is that of a position other than the current coordinates.      *)
C10_Witness ==
    /\ fetchCalls = 2 /\ requests = 2 /\ errorLog = 0 /\ fetches = << >>
    /\ visible /\ latitude # InitialLatitude
    /\ ~IsNull(weatherData)
    /\ Val(weatherData).latitude # ToFixed(latitude, 6, 4)

-----------------------------------------------------------------------------
(* The stored record *)

(* A well-formed 2xx body: main temperature, pressure, humidity and the  *)
(* first weather description are present; the name may be missing or     *)
(* empty.                                                                *)
WellFormedBodies ==
    { Some(WellFormed),
      Some([WellFormed EXCEPT !.name = Null]),
      Some([WellFormed EXCEPT !.name = Some("")]) }

(* The decimal texts the claim expects for the numbers of the model:     *)
(* coordinates (10^-6 degrees) at 4 decimals, the temperature (10^-3     *)
(* degrees) at 2 decimals.                                               *)
Rounded4 ==
    (57538900 :> "57.5389") @@ (25425727 :> "25.4257")
        @@ (40712776 :> "40.7128") @@ (-74006000 :> "-74.0060")
Rounded2 == (18456 :> "18.46")

(* The record the claim expects for fetchWeatherData(lat, lon) answered  *)
(* with the well-formed body d.                                          *)
ExpectedRecord(lat, lon, d) ==
    [ place |-> IF d.name \in {Null, Some("")} THEN "Unknown Location" ELSE Val(d.name),
      latitude |-> Rounded4[lat],
      longitude |-> Rounded4[lon],
      temp |-> Rounded2[Val(Val(d.main).temp)],
      pressure |-> Val(d.main).pressure,
      humidity |-> Val(d.main).humidity,
      description |-> Val(d.weather)[1].description ]

(* C11: on a well-formed success response fetchWeatherData(lat, lon)     *)
(* stores exactly the record {place: the name or "Unknown Location",     *)
(* latitude and longitude: lat and lon rounded to 4 decimals, temp:      *)
(* main.temp rounded to 2 decimals, pressure, humidity, description of   *)
(* the first weather entry}, whatever record was stored before.          *)
C11_StoredRecordIsFormatted ==
    [][FetchSucceeded
          => \A f \in DOMAIN fetches, data \in WellFormedBodies :
                JsonResolve(f, data)
                    => weatherData' = Some(ExpectedRecord(fetches[f].lat, fetches[f].lon,
                                                          Val(data)))]_vars

(* The scenario of the specification: (57.5389, 25.425727) answered with *)
(* Valka, 18.456 degrees, 1012, 60, clear sky.                           *)
C11_Witness ==
    weatherData = Some([ place |-> "Valka", latitude |-> "57.5389",
                         longitude |-> "25.4257", temp |-> "18.46",
                         pressure |-> Some(1012), humidity |-> Some(60),
                         description |-> Some("clear sky") ])

-----------------------------------------------------------------------------
(* Tracking failure *)

(* The permission request or watchPositionAsync rejected. *)
SetupFailureStep ==
    /\ Len(starts') < Len(starts)
    /\ \E i \in DOMAIN starts, msg \in ErrorMessages :
          PermissionReject(i, msg) \/ WatchReject(i, msg)

(* locationError holds the message of a tracking failure. *)
TrackingErrorShown ==
    \E msg \in ErrorMessages : locationError = Some(TrackingErrorPrefix \o msg)

(* The user interface and the suspended fetches can go on: Show Weather  *)
(* can be pressed while the session has calls left, an open dialog can   *)
(* be dismissed, and every suspended fetch can take its next step.       *)
StillInteractive ==
    /\ (startCalls + fetchCalls < MaxCalls) => ENABLED GetWeather
    /\ visible => ENABLED HideDialog
    /\ \A f \in DOMAIN fetches :
          \/ ENABLED (\E ok \in BOOLEAN : FetchResponse(f, ok))
          \/ ENABLED TextSettle(f)
          \/ ENABLED (\E data \in JsonBodies : JsonResolve(f, data))

(* C12: when subscription setup throws, startLocationTracking sets       *)
(* locationError to a non-null message and raises exactly one alert, and *)
(* afterwards Show Weather, the dismissal of the dialog and the fetches  *)
(* are still enabled.                                                    *)
C12_SetupFailureIsShownNotFatal ==
    /\ [][SetupFailureStep
             => /\ ~IsNull(locationError')
                /\ TrackingErrorShown'
                /\ alerts' = alerts + 1
                /\ <<mounted, uiVars, fetchVars>>' = <<mounted, uiVars, fetchVars>>]_vars
    /\ []((TrackingErrorShown /\ mounted) => StillInteractive)

(* After a tracking failure: the banner is set, one alert was raised,    *)
(* and a fetch made afterwards is suspended while the dialog is open.    *)
C12_Witness ==
    /\ TrackingErrorShown /\ alerts = 1 /\ startCalls = 1 /\ starts = << >>
    /\ visible /\ Len(fetches) = 1

-----------------------------------------------------------------------------
(* The location-update callback *)

(* The invocation record of a fetch that passed the key guard. *)
Suspended(caller, lat, lon) ==
    [caller |-> caller, lat |-> lat, lon |-> lon, pc |-> "awaitFetch"]

(* C13: every location-update callback sets the coordinates to the       *)
(* reported latitude and longitude and calls fetchWeatherData exactly    *)
(* once, with the reported coordinates, while earlier fetches are still  *)
(* suspended.                                                            *)
C13_UpdateSetsAndFetchesReported ==
    [][FetchCalled
          => \A h \in Handles, pos \in Positions :
                LocationUpdate(h, pos)
                    => /\ latitude' = pos.lat /\ longitude' = pos.lon
                       /\ fetchCalls' = fetchCalls + 1
                       /\ IF apiKey \in {"", PlaceholderKey}
                          THEN fetches' = fetches /\ requests' = requests
                          ELSE /\ fetches' = Append(fetches, Suspended("auto", pos.lat, pos.lon))
                               /\ requests' = requests + 1]_vars

(* An update arrived while an earlier fetch was suspended: its fetch is  *)
(* suspended too, for the new coordinates, which differ from those of    *)
(* the earlier fetch.                                                    *)
C13_Witness ==
    /\ Len(fetches) = 2
    /\ fetches[2].caller = "auto"
    /\ fetches[2].lat = latitude /\ fetches[2].lon = longitude
    /\ fetches[1].lat # latitude

-----------------------------------------------------------------------------
(* Tracking after a denial *)

(* C14: in every state in which a permission denial has set              *)
(* locationError, tracking is halted: no location subscription is        *)
(* active (so no location update changes the coordinates).               *)
C14_DenialHaltsTracking ==
    locationError = Some(PermissionDeniedMessage) => ActiveSubs = {}

-----------------------------------------------------------------------------
(* The error banner *)

(* C15: locationError is null initially, changes only in a permission    *)
(* denial or a tracking-setup failure, and only to a non-null message:   *)
(* no fetch result, API-key alert, location update, dialog action or     *)
(* successful startLocationTracking sets or clears it.                   *)
C15_ErrorSetOnlyByTrackerNeverCleared ==
    /\ IsNull(locationError)
    /\ [][(locationError' # locationError)
             => /\ ~IsNull(locationError')
                /\ DenialStep \/ SetupFailureStep]_vars

(* The banner is shown while a subscription is active, a record is       *)
(* stored, a fetch has failed and no invocation is suspended.            *)
C15_Witness ==
    /\ ~IsNull(locationError)
    /\ ActiveSubs # {} /\ starts = << >>
    /\ ~IsNull(weatherData) /\ errorLog > 0

-----------------------------------------------------------------------------
(* Who writes the coordinates and the weather record *)

(* C16: the coordinates are written only by the location-update callback *)
(* and the weather record only by a fetch that completes successfully:   *)
(* Show Weather, the dismissal of the dialog, fetch completions and      *)
(* startLocationTracking leave the coordinates unchanged; the callback,  *)
(* Show Weather, the dismissal and failed fetches leave the record       *)
(* unchanged.                                                            *)
C16_SingleWriters ==
    [][/\ (<<latitude, longitude>>' # <<latitude, longitude>>)
            => \E h \in Handles, pos \in Positions : LocationUpdate(h, pos)
       /\ (weatherData' # weatherData)
            => /\ FetchSucceeded
               /\ \E f \in DOMAIN fetches, data \in JsonBodies :
                     /\ ~IsNull(data) /\ ~BuildThrows(Val(data))
                     /\ JsonResolve(f, data)]_vars

(* The coordinates were updated and a record stored, in a session in     *)
(* which a fetch failed and Show Weather was pressed.                    *)
C16_Witness ==
    /\ latitude # InitialLatitude
    /\ ~IsNull(weatherData)
    /\ Val(weatherData).latitude = ToFixed(latitude, 6, 4)
    /\ errorLog > 0 /\ visible

-----------------------------------------------------------------------------
(* Show Weather *)

(* C17: in every state of the mounted component, also after a permission *)
(* denial, a tracking failure or a fetch failure, Show Weather can be    *)
(* pressed; the press calls fetchWeatherData exactly once with the       *)
(* stored coordinates and opens the dialog; and the record a fetch       *)
(* stores depends on its coordinates and the response only, not on the   *)
(* caller.                                                               *)
C17_ShowWeatherAlwaysFetchesStored ==
    /\ []((mounted /\ startCalls + fetchCalls < MaxCalls) => ENABLED GetWeather)
    /\ [][(FetchCalled /\ GetWeather)
             => /\ visible'
                /\ fetchCalls' = fetchCalls + 1
                /\ <<latitude, longitude, weatherData>>' = <<latitude, longitude, weatherData>>
                /\ IF apiKey \in {"", PlaceholderKey}
                   THEN fetches' = fetches /\ requests' = requests
                   ELSE /\ fetches' = Append(fetches, Suspended("manual", latitude, longitude))
                        /\ requests' = requests + 1]_vars
    /\ [][FetchSucceeded
             => \A f \in DOMAIN fetches, data \in JsonBodies :
                   JsonResolve(f, data)
                       => /\ fetches[f].caller \in {"manual", "auto"}
                          /\ weatherData' = Some(WeatherRecord(fetches[f].lat, fetches[f].lon,
                                                               Val(data)))]_vars

(* After a permission denial and a failed fetch, Show Weather was        *)
(* pressed: the dialog is open and a manual fetch for the stored         *)
(* coordinates is suspended.                                             *)
C17_Witness ==
    /\ locationError = Some(PermissionDeniedMessage)
    /\ errorLog > 0
    /\ visible
    /\ \E f \in DOMAIN fetches : fetches[f] = Suspended("manual", latitude, longitude)

-----------------------------------------------------------------------------
(* Releases of a handle *)

(* C18: no subscription handle has remove() called more than once in the *)
(* whole session, for any sequence of startLocationTracking invocations, *)
(* setup failures and the unmount.                                       *)
C18_HandleReleasedAtMostOnce == \A h \in Handles : subs[h] <= 1

====
